---- MODULE Spec2Model ----
(***************************************************************************)
(* Model of the chained hash table of src/hashTable.c.                     *)
(*                                                                         *)
(* The heap is explicit: chain nodes (ListNode) and entries (HTEntry) are  *)
(* records in two growing sequences, a pointer is an index into its        *)
(* sequence and 0 is the NULL pointer.  The bucket array ht is a sequence  *)
(* of head pointers; C slot i is ht[i+1].  index is 0-based as in the C    *)
(* code, so the active capacity is sizes[index+1].                         *)
(*                                                                         *)
(* A data pointer is a positive number.  KeyOf(d) is the string it points  *)
(* to.  The pointers 1..NumData point to the NumKeys strings in turn, so   *)
(* d and d + NumKeys point to equal strings at different addresses:        *)
(* compare returns 0 on them, and the hash function, which reads the       *)
(* pointed-to string, returns the same value for both.  Every pointer      *)
(* above NumData points to a string of its own.                            *)
(*                                                                         *)
(* The rehash load factor (a float in the code) is a rational              *)
(* [num, den].  The float quotient numItem/sizes[index] compared with the  *)
(* float load factor is num-over-den cross multiplication: rounding to     *)
(* float is monotone and the quotients and load factors used here differ   *)
(* by far more than one float ulp unless they are equal.                   *)
(*                                                                         *)
(* An allocation of a non-zero size succeeds.  calloc of zero elements     *)
(* returns NULL or a block, as the C library chooses; the code sends a     *)
(* NULL result to failMalloc, which ends the process (status "exited").    *)
(* A failed assert ends it too (status "aborted").                         *)
(*                                                                         *)
(* caller is the memory of the caller that htCreate is handed pointers to: *)
(* the sizes array and the HTFunctions struct.  ptr holds the two pointer  *)
(* fields of the table, each pointing to the table's own block ("own",     *)
(* whose content is the variable sizes or functions) or into the caller's  *)
(* memory ("caller").  freed is the log of the free calls and of the calls *)
(* of the destroy function, in order; a block is named by its kind and     *)
(* its number (a bucket array by the schedule cursor it was made for).     *)
(***************************************************************************)
EXTENDS Integers, Sequences, FiniteSets, TLC

\* ---------------------------------------------------------------- bounds
NumKeys == 3
NumData == 4
MaxAdds == 4
MaxFresh == 17

NULL == 0
Keys == 1..NumKeys
Data == 1..NumData
KeyOf(d) == IF d <= NumData THEN ((d - 1) % NumKeys) + 1 ELSE d

\* ------------------------------------------------ caller-supplied functions
\* FNCompare: negative, zero or positive, like strcmp on the two strings.
compare(d1, d2) == KeyOf(d1) - KeyOf(d2)

\* The strings of testRehash: each htAdd there passes a fresh random string.
FreshKeys == (NumData + 1)..(NumData + MaxFresh)
AllKeys == Keys \cup FreshKeys

\* FNHash candidates: the raw hash value of a string (no modulo).
HashFns ==
  { [k \in AllKeys |-> k],
    [k \in AllKeys |-> 7],
    [k \in AllKeys |-> IF k = 1 THEN 2147483647 ELSE 6 * k] }

\* sizes[] arrays and rehash load factors handed to htCreate; the last of
\* each is the configuration of testRehash.
ExampleSizes == <<10, 30, 999>>
ExampleLoadFactor == [num |-> 49, den |-> 100]
Schedules == { <<2, 3, 5>>, <<3, 4>> }
LoadFactors == { [num |-> 1, den |-> 2], [num |-> 3, den |-> 4],
                 [num |-> 1, den |-> 1] }

VARIABLES functions, sizes, numSizes, index, numItem, total, lf, ht,
          nodes, entries, status, call, addCount, caller, ptr, freed,
          threads

vars == <<functions, sizes, numSizes, index, numItem, total, lf, ht,
          nodes, entries, status, call, addCount, caller, ptr, freed,
          threads>>

\* The HashTable struct together with the heap it points into, the two
\* pointer fields functions and sizes dereferenced.
Table ==
  [functions |-> IF ptr.functions = "own" THEN functions
                 ELSE caller.functions,
   sizes |-> IF ptr.sizes = "own" THEN sizes ELSE caller.sizes,
   numSizes |-> numSizes,
   index |-> index, numItem |-> numItem, total |-> total, lf |-> lf,
   ht |-> ht, nodes |-> nodes, entries |-> entries]

hash(t, d) == t.functions.hash[KeyOf(d)]

\* calloc(n, sizeof(ListNode*)): n NULL head pointers.
callocBuckets(n) == [i \in 1..n |-> NULL]

\* --------------------------------------------------------------- growth
\* hrehash: relink every node of the chain starting at curr at the head of
\* its chain in nht, the bucket taken under the already advanced index.
\* m is [nodes, nht].
RECURSIVE hrehash(_, _, _)
hrehash(t, curr, m) ==
  IF curr = NULL THEN m
  ELSE LET i    == hash(t, t.entries[t.nodes[curr].entry].data)
                     % t.sizes[t.index + 1]
           temp == m.nodes[curr].next
       IN  hrehash(t, temp,
                   [nodes |-> [m.nodes EXCEPT ![curr].next = m.nht[i + 1]],
                    nht   |-> [m.nht EXCEPT ![i + 1] = curr]])

\* The for loop of rehash over the old slots i .. sizes[index-1]-1.
RECURSIVE rehashLoop(_, _, _)
rehashLoop(t, i, m) ==
  IF i < t.sizes[t.index]
    THEN rehashLoop(t, i + 1, hrehash(t, t.ht[i + 1], m))
    ELSE m

\* Mutant: the loop over the old slots starts at slot 1.
rehashSkipsSlot(hti) ==
  LET t == [hti EXCEPT !.index = hti.index + 1]
      m == rehashLoop(t, 1, [nodes |-> t.nodes,
                             nht   |-> callocBuckets(t.sizes[t.index + 1])])
  IN  [t EXCEPT !.nodes = m.nodes, !.ht = m.nht]

\* Mutant: the new heads are set but the next pointers of the nodes are
\* left as they were in the old chains.
rehashKeepsLinks(hti) ==
  LET t == [hti EXCEPT !.index = hti.index + 1]
      m == rehashLoop(t, 0, [nodes |-> t.nodes,
                             nht   |-> callocBuckets(t.sizes[t.index + 1])])
  IN  [t EXCEPT !.ht = m.nht]

rehash(hti) ==
  LET t == [hti EXCEPT !.index = hti.index + 1]
      m == rehashLoop(t, 0, [nodes |-> t.nodes,
                             nht   |-> callocBuckets(t.sizes[t.index + 1])])
  IN  [t EXCEPT !.nodes = m.nodes, !.ht = m.nht]

\* Mutant: the ratio is taken from the total count.
ratioExceedsTotal(hti) ==
  hti.total * hti.lf.den > hti.lf.num * hti.sizes[hti.index + 1]

\* ratio > lf, with ratio = (float)numItem / sizes[index].
ratioExceeds(hti) ==
  hti.numItem * hti.lf.den > hti.lf.num * hti.sizes[hti.index + 1]

\* Mutant: a load factor of 1 is treated like any other.
needsRehashIgnoresOne(hti) ==
  /\ hti.index < hti.numSizes - 1
  /\ ratioExceeds(hti)

needsRehash(hti) ==
  /\ hti.lf.num # hti.lf.den
  /\ hti.index < hti.numSizes - 1
  /\ ratioExceeds(hti)

\* Mutant: the check is repeated until the ratio is at or below the load
\* factor.
RECURSIVE checkRehashRepeats(_)
checkRehashRepeats(hti) ==
  IF needsRehash(hti) THEN checkRehashRepeats(rehash(hti)) ELSE hti

checkRehash(hti) == IF needsRehash(hti) THEN rehash(hti) ELSE hti

\* ------------------------------------------------------------ insertion
\* The while loop of addTail: the first node of the chain whose entry
\* compares equal to data, or NULL.
RECURSIVE addTailScan(_, _, _)
addTailScan(t, curr, data) ==
  IF curr = NULL THEN NULL
  ELSE IF compare(t.entries[t.nodes[curr].entry].data, data) = 0 THEN curr
  ELSE addTailScan(t, t.nodes[curr].next, data)

addEntry(data) == [data |-> data, frequency |-> 1]

\* The two outcomes of addTail on the table t whose counters are already
\* incremented: curr matched, or a new node is pushed on slot hi.
addTailFound(t, curr, numItemStep, totalStep, frequencyStep, returned) ==
  LET e == t.nodes[curr].entry
  IN  [t  |-> [t EXCEPT !.numItem = t.numItem - numItemStep,
                        !.total = t.total - totalStep,
                        !.entries[e].frequency =
                            t.entries[e].frequency + frequencyStep],
       fr |-> t.entries[e].frequency + returned]

addTailNew(t, hi, data) ==
  LET e == Len(t.entries) + 1
      n == Len(t.nodes) + 1
  IN  [t  |-> [t EXCEPT
                 !.entries = Append(t.entries, addEntry(data)),
                 !.nodes = Append(t.nodes,
                             [entry |-> e, next |-> t.ht[hi + 1]]),
                 !.ht[hi + 1] = n],
       fr |-> 1]

addTailWith(hti, hi, data, numItemStep, totalStep, frequencyStep, returned) ==
  LET t    == [hti EXCEPT !.numItem = hti.numItem + 1,
                          !.total = hti.total + 1]
      curr == addTailScan(t, t.ht[hi + 1], data)
  IN  IF curr # NULL
        THEN addTailFound(t, curr, numItemStep, totalStep, frequencyStep,
                          returned)
        ELSE addTailNew(t, hi, data)

\* Mutant: a duplicate leaves the stored frequency as it was.
addTailKeepsFrequency(hti, hi, data) == addTailWith(hti, hi, data, 1, 0, 0, 1)

\* Mutant: a duplicate returns the frequency read before the increment.
addTailReturnsOld(hti, hi, data) == addTailWith(hti, hi, data, 1, 0, 1, 0)

\* Mutant: a duplicate takes its increment of the total count back.
addTailTotalOnNew(hti, hi, data) == addTailWith(hti, hi, data, 1, 1, 1, 1)

\* Mutant: a duplicate keeps its increment of the unique count.
addTailCountsDuplicates(hti, hi, data) ==
  addTailWith(hti, hi, data, 0, 0, 1, 1)

\* Mutant: a duplicate stores the reference it was passed.
addTailStoresLatest(hti, hi, data) ==
  LET t    == [hti EXCEPT !.numItem = hti.numItem + 1,
                          !.total = hti.total + 1]
      curr == addTailScan(t, t.ht[hi + 1], data)
  IN  IF curr # NULL
        THEN LET r == addTailFound(t, curr, 1, 0, 1, 1)
             IN  [t  |-> [r.t EXCEPT
                            !.entries[t.nodes[curr].entry].data = data],
                  fr |-> r.fr]
        ELSE addTailNew(t, hi, data)

\* Mutant: a duplicate is moved to the front of its chain by exchanging
\* the entries of its node and of the head node.
addTailMovesToFront(hti, hi, data) ==
  LET t    == [hti EXCEPT !.numItem = hti.numItem + 1,
                          !.total = hti.total + 1]
      head == t.ht[hi + 1]
      curr == addTailScan(t, head, data)
  IN  IF curr # NULL
        THEN LET r == addTailFound(t, curr, 1, 0, 1, 1)
             IN  [t  |-> [r.t EXCEPT
                            !.nodes[head].entry = t.nodes[curr].entry,
                            !.nodes[curr].entry = t.nodes[head].entry],
                  fr |-> r.fr]
        ELSE addTailNew(t, hi, data)

\* The last node of the chain starting at curr (curr is not NULL).
RECURSIVE lastNode(_, _)
lastNode(t, curr) ==
  IF t.nodes[curr].next = NULL THEN curr ELSE lastNode(t, t.nodes[curr].next)

\* Mutant: a new node is linked after the last node of its chain.
addTailAtTail(hti, hi, data) ==
  LET t    == [hti EXCEPT !.numItem = hti.numItem + 1,
                          !.total = hti.total + 1]
      curr == addTailScan(t, t.ht[hi + 1], data)
      e    == Len(t.entries) + 1
      n    == Len(t.nodes) + 1
      new  == [entry |-> e, next |-> NULL]
  IN  IF curr # NULL
        THEN addTailFound(t, curr, 1, 0, 1, 1)
        ELSE IF t.ht[hi + 1] = NULL
          THEN [t  |-> [t EXCEPT !.entries = Append(t.entries, addEntry(data)),
                                 !.nodes = Append(t.nodes, new),
                                 !.ht[hi + 1] = n],
                fr |-> 1]
          ELSE [t  |-> [t EXCEPT
                          !.entries = Append(t.entries, addEntry(data)),
                          !.nodes = Append([t.nodes EXCEPT
                                      ![lastNode(t, t.ht[hi + 1])].next = n],
                                      new)],
                fr |-> 1]

\* addTail returns the table and the frequency; hi is the C bucket index.
addTail(hti, hi, data) ==
  LET t    == [hti EXCEPT !.numItem = hti.numItem + 1,
                          !.total = hti.total + 1]
      curr == addTailScan(t, t.ht[hi + 1], data)
  IN  IF curr # NULL
        THEN LET e == t.nodes[curr].entry
             IN  [t  |-> [t EXCEPT !.numItem = t.numItem - 1,
                                   !.entries[e].frequency =
                                       t.entries[e].frequency + 1],
                  fr |-> t.entries[e].frequency + 1]
        ELSE LET e == Len(t.entries) + 1
                 n == Len(t.nodes) + 1
             IN  [t  |-> [t EXCEPT
                            !.entries = Append(t.entries, addEntry(data)),
                            !.nodes = Append(t.nodes,
                                        [entry |-> e, next |-> t.ht[hi + 1]]),
                            !.ht[hi + 1] = n],
                  fr |-> 1]

\* Mutant: the bucket is computed before checkRehash.
htAddHashesFirst(hti, data) ==
  LET mid == checkRehash(hti)
      hi  == hash(hti, data) % hti.sizes[hti.index + 1]
      r   == addTail(mid, hi, data)
  IN  [t |-> r.t, fr |-> r.fr, mid |-> mid, grew |-> needsRehash(hti)]

\* htAdd after its assert: the table after checkRehash (mid), the final
\* table and the returned frequency.
htAdd(hti, data) ==
  LET mid == checkRehash(hti)
      hi  == hash(mid, data) % mid.sizes[mid.index + 1]
      r   == addTail(mid, hi, data)
  IN  [t |-> r.t, fr |-> r.fr, mid |-> mid, grew |-> needsRehash(hti)]

\* --------------------------------------------------------------- lookup
RECURSIVE lookUpScan(_, _, _)
lookUpScan(t, curr, data) ==
  IF curr = NULL THEN [data |-> NULL, frequency |-> 0]
  ELSE IF compare(t.entries[t.nodes[curr].entry].data, data) = 0
         THEN t.entries[t.nodes[curr].entry]
  ELSE lookUpScan(t, t.nodes[curr].next, data)

\* Mutant: the bucket is taken under the first capacity of the schedule.
htLookUpFirstSize(hti, data) ==
  LET i == hash(hti, data) % hti.sizes[1]
  IN  lookUpScan(hti, hti.ht[i + 1], data)

htLookUp(hti, data) ==
  LET i == hash(hti, data) % hti.sizes[hti.index + 1]
  IN  lookUpScan(hti, hti.ht[i + 1], data)

\* ------------------------------------------------------------- snapshot
\* toArray: append a copy of every entry of the chain to arr.
RECURSIVE toArray(_, _, _)
toArray(t, arr, curr) ==
  IF curr = NULL THEN arr
  ELSE toArray(t, Append(arr, t.entries[t.nodes[curr].entry]),
               t.nodes[curr].next)

RECURSIVE toArrayLoop(_, _, _)
toArrayLoop(t, i, arr) ==
  IF i < t.sizes[t.index + 1]
    THEN toArrayLoop(t, i + 1, toArray(t, arr, t.ht[i + 1]))
    ELSE arr

\* Mutant: the loop over the slots starts at slot 1.
htToArraySkipsSlot(hti) ==
  LET arr == toArrayLoop(hti, 1, <<>>)
      s   == Len(arr)
  IN  [arr |-> IF s = 0 THEN <<>> ELSE arr, isNull |-> s = 0, size |-> s]

\* htToArray once calloc has returned a non-NULL block: the array, whether
\* NULL is returned instead of it, and *size.
htToArray(hti) ==
  LET arr == toArrayLoop(hti, 0, <<>>)
      s   == Len(arr)
  IN  [arr |-> IF s = 0 THEN <<>> ELSE arr, isNull |-> s = 0, size |-> s]

\* ----------------------------------------------------------- O(1) reads
\* Mutant: the schedule cursor is returned in place of the size at it.
htCapacityCursor(hti) == hti.index

htCapacity(hti) == hti.sizes[hti.index + 1]
htUniqueEntries(hti) == hti.numItem
htTotalEntries(hti) == hti.total

\* -------------------------------------------------------------- metrics
\* updateChain: the number of nodes of the chain starting at curr.
RECURSIVE updateChain(_, _)
updateChain(t, curr) ==
  IF curr = NULL THEN 0 ELSE 1 + updateChain(t, t.nodes[curr].next)

\* The for loop of htMetrics; a is [num, max, total].
RECURSIVE htMetricsLoop(_, _, _)
htMetricsLoop(t, i, a) ==
  IF i < t.sizes[t.index + 1]
    THEN LET count == updateChain(t, t.ht[i + 1])
         IN  htMetricsLoop(t, i + 1,
               [num   |-> IF count > 0 THEN a.num + 1 ELSE a.num,
                max   |-> IF count > a.max THEN count ELSE a.max,
                total |-> a.total + count])
    ELSE a

\* Mutant: the average is taken over all slots of the bucket array.
htMetricsOverSlots(hti) ==
  LET a == htMetricsLoop(hti, 0, [num |-> 0, max |-> 0, total |-> 0])
  IN  [numberOfChains |-> a.num,
       maxChainLength |-> a.max,
       avgChainLength |-> [num |-> a.total,
                           den |-> hti.sizes[hti.index + 1]]]

\* Mutant: a table without chains gets an average of 0.
htMetricsZeroWhenEmpty(hti) ==
  LET a == htMetricsLoop(hti, 0, [num |-> 0, max |-> 0, total |-> 0])
  IN  [numberOfChains |-> a.num,
       maxChainLength |-> a.max,
       avgChainLength |-> IF a.num = 0 THEN [num |-> 0, den |-> 1]
                          ELSE [num |-> a.total, den |-> a.num]]

\* avgChainLength is the quotient (float)total / num, kept as its two
\* operands.
htMetrics(hti) ==
  LET a == htMetricsLoop(hti, 0, [num |-> 0, max |-> 0, total |-> 0])
  IN  [numberOfChains |-> a.num,
       maxChainLength |-> a.max,
       avgChainLength |-> [num |-> a.total, den |-> a.num]]

\* ------------------------------------------------------------- teardown
\* free(p) and functions->destroy(p), as entries of the log.
Free(kind, id) == [ev |-> "free", kind |-> kind, id |-> id]
Destroy(id) == [ev |-> "destroy", kind |-> "data", id |-> id]

\* destroy: the calls made for the chain starting at curr, appended to log.
RECURSIVE destroy(_, _, _, _)
destroy(t, curr, destroyData, log) ==
  IF curr = NULL THEN log
  ELSE LET next == t.nodes[curr].next
           e    == t.nodes[curr].entry
           d    == t.entries[e].data
           own  == IF destroyData # 0
                     THEN (IF t.functions.destroy THEN <<Destroy(d)>>
                           ELSE <<>>)
                          \o <<Free("data", d), Free("entry", e)>>
                     ELSE <<>>
       IN  destroy(t, next, destroyData,
                   log \o own \o <<Free("node", curr)>>)

RECURSIVE htDestroyLoop(_, _, _, _)
htDestroyLoop(t, i, destroyData, log) ==
  IF i < t.sizes[t.index + 1]
    THEN htDestroyLoop(t, i + 1, destroyData,
                       destroy(t, t.ht[i + 1], destroyData, log))
    ELSE log

\* Mutant: the stored values are freed whatever the flag.
htDestroyAlwaysFrees(hti, destroyData, log) ==
  htDestroyLoop(hti, 0, 1, log)
    \o << Free("functions", 0), Free("sizes", 0), Free("ht", hti.index),
          Free("hti", 0) >>

\* htDestroy: the log after the call.
htDestroy(hti, destroyData, log) ==
  htDestroyLoop(hti, 0, destroyData, log)
    \o << Free("functions", 0), Free("sizes", 0), Free("ht", hti.index),
          Free("hti", 0) >>

\* ------------------------------------------------------- array accesses
\* An access at C index at of an array of len elements.
Slot(len, at) == [len |-> len, at |-> at]

\* for(i = 0; i < sizes[index]; i++) ... ht[i]: the loop of htToArray,
\* htMetrics and htDestroy.
bucketLoopAccesses(hti) ==
  { Slot(Len(hti.ht), i) : i \in 0..(hti.sizes[hti.index + 1] - 1) }

\* ht[hash(data) % sizes[index]] of htLookUp.
htLookUpAccesses(hti, data) ==
  { Slot(Len(hti.ht), hash(hti, data) % hti.sizes[hti.index + 1]) }

\* Mutant: the loop over the old array runs up to the new size.
rehashAccessesNewBound(hti) ==
  LET new == hti.sizes[hti.index + 2]
  IN  { Slot(Len(hti.ht), i) : i \in 0..(new - 1) }
        \cup { Slot(new, hash(hti, hti.entries[e].data) % new) :
                 e \in DOMAIN hti.entries }

\* rehash on the table before the call: oht[i] for i < sizes[index-1] of
\* the advanced index, and nht[hash % sizes[index]] of hrehash for every
\* node, nht having sizes[index] slots.
rehashAccesses(hti) ==
  LET old == hti.sizes[hti.index + 1]
      new == hti.sizes[hti.index + 2]
  IN  { Slot(Len(hti.ht), i) : i \in 0..(old - 1) }
        \cup { Slot(new, hash(hti, hti.entries[e].data) % new) :
                 e \in DOMAIN hti.entries }

\* htAdd: the accesses of rehash when checkRehash calls it, then ht[hi].
htAddAccesses(hti, data) ==
  LET mid == checkRehash(hti)
  IN  (IF needsRehash(hti) THEN rehashAccesses(hti) ELSE {})
        \cup { Slot(Len(mid.ht), hash(mid, data) % mid.sizes[mid.index + 1]) }

\* htToArray: the bucket loop, and arr[*s] of toArray for every node met,
\* arr having numItem elements.
htToArrayAccesses(hti) ==
  bucketLoopAccesses(hti)
    \cup { Slot(hti.numItem, k) : k \in 0..(htToArray(hti).size - 1) }

\* -------------------------------------------------------- construction
\* The asserts of setSizeArray on sizes[i..numSizes-1], in loop order.
RECURSIVE setSizeArray(_, _, _, _)
setSizeArray(szs, n, i, prev) ==
  IF i < n
    THEN /\ szs[i + 1] > 1
         /\ szs[i + 1] > prev
         /\ setSizeArray(szs, n, i + 1, szs[i + 1])
    ELSE TRUE

\* Mutant: a load factor of 0 passes.
htCreateAssertsZeroFactor(szs, n, rehashLoadFactor) ==
  /\ n > 0
  /\ rehashLoadFactor.num >= 0 /\ rehashLoadFactor.num <= rehashLoadFactor.den
  /\ setSizeArray(szs, n, 0, 0)

\* Whether every assert met by htCreate passes.
htCreateAsserts(szs, n, rehashLoadFactor) ==
  /\ n > 0
  /\ rehashLoadFactor.num > 0 /\ rehashLoadFactor.num <= rehashLoadFactor.den
  /\ setSizeArray(szs, n, 0, 0)

\* Mutant: the bucket array is sized by the last entry of the schedule.
htCreateLastSize(fns, szs, n, rehashLoadFactor) ==
  [ptr       |-> [functions |-> "own", sizes |-> "own"],
   functions |-> [hash |-> fns.hash, destroy |-> fns.destroy],
   sizes     |-> [i \in 1..n |-> szs[i]],
   numSizes  |-> n,
   index     |-> 0,
   numItem   |-> 0,
   total     |-> 0,
   lf        |-> rehashLoadFactor,
   ht        |-> callocBuckets(szs[n]),
   nodes     |-> <<>>,
   entries   |-> <<>>]

\* Mutant: the table keeps the caller's two pointers instead of copies.
htCreateShallow(fns, szs, n, rehashLoadFactor) ==
  [ptr       |-> [functions |-> "caller", sizes |-> "caller"],
   functions |-> [hash |-> fns.hash, destroy |-> fns.destroy],
   sizes     |-> [i \in 1..n |-> szs[i]],
   numSizes  |-> n,
   index     |-> 0,
   numItem   |-> 0,
   total     |-> 0,
   lf        |-> rehashLoadFactor,
   ht        |-> callocBuckets(szs[1]),
   nodes     |-> <<>>,
   entries   |-> <<>>]

\* htCreate with arguments that pass its asserts: copies of the functions
\* and of the first numSizes sizes in blocks of the table's own, zeroed
\* counters, sizes[0] empty slots.
htCreate(fns, szs, n, rehashLoadFactor) ==
  [ptr       |-> [functions |-> "own", sizes |-> "own"],
   functions |-> [hash |-> fns.hash, destroy |-> fns.destroy],
   sizes     |-> [i \in 1..n |-> szs[i]],
   numSizes  |-> n,
   index     |-> 0,
   numItem   |-> 0,
   total     |-> 0,
   lf        |-> rehashLoadFactor,
   ht        |-> callocBuckets(szs[1]),
   nodes     |-> <<>>,
   entries   |-> <<>>]

\* ------------------------------------------------- the last call observed
NoEntry == [data |-> NULL, frequency |-> 0]
NoMid == [index |-> 0, numItem |-> 0, total |-> 0, ht |-> <<>>,
          nodes |-> <<>>, entries |-> <<>>]
MidOf(t) == [index |-> t.index, numItem |-> t.numItem, total |-> t.total,
             ht |-> t.ht, nodes |-> t.nodes, entries |-> t.entries]
NoMetrics == [numberOfChains |-> 0, maxChainLength |-> 0,
              avgChainLength |-> [num |-> 0, den |-> 1]]
NoCall == [op |-> "create", data |-> NULL, ret |-> 0, entry |-> NoEntry,
           arr |-> <<>>, isNull |-> FALSE, size |-> 0,
           grew |-> FALSE, mid |-> NoMid, metrics |-> NoMetrics]

\* The sum of f over the set S.
RECURSIVE SumOver(_, _)
SumOver(f, S) ==
  IF S = {} THEN 0
  ELSE LET x == CHOOSE y \in S : TRUE IN f[x] + SumOver(f, S \ {x})

\* The callers of the table: each is between calls (idle) or at a
\* statement of htAdd, with the locals data, hi and curr of htAdd and
\* addTail.  serialized says whether the callers take turns.
Threads == {1, 2}
Idle == [pc |-> "idle", data |-> NULL, hi |-> 0, curr |-> NULL]
NoThreads(serialized) ==
  [serialized |-> serialized, local |-> [p \in Threads |-> Idle]]

InitWith(fns, szs, rlf) ==
  LET t == htCreate(fns, szs, Len(szs), rlf)
  IN  /\ caller = [functions |-> fns, sizes |-> szs,
                    numSizes |-> Len(szs), lf |-> rlf]
      /\ ptr = t.ptr
      /\ freed = <<>>
      /\ functions = t.functions
      /\ sizes = t.sizes
      /\ numSizes = t.numSizes
      /\ index = t.index
      /\ numItem = t.numItem
      /\ total = t.total
      /\ lf = t.lf
      /\ ht = t.ht
      /\ nodes = t.nodes
      /\ entries = t.entries
      /\ status = "live"
      /\ call = NoCall
      /\ addCount = [k \in AllKeys |-> 0]

Init ==
  /\ threads = NoThreads(TRUE)
  /\ \E h \in HashFns :
       \/ \E szs \in Schedules, rlf \in LoadFactors :
            InitWith([hash |-> h, destroy |-> FALSE], szs, rlf)
       \/ InitWith([hash |-> h, destroy |-> FALSE], ExampleSizes,
                   ExampleLoadFactor)

TableUnchanged ==
  UNCHANGED <<functions, sizes, numSizes, index, numItem, total, lf, ht,
              nodes, entries, ptr, freed>>

\* ------------------------------------------------------------- actions
\* assert(data != NULL) failed: the process aborts where it stands.
AssertFails(op) ==
  /\ status' = "aborted"
  /\ call' = [NoCall EXCEPT !.op = op]
  /\ TableUnchanged
  /\ UNCHANGED <<addCount, caller,
                 threads>>

\* htAdd past its assert.  rehash frees the old bucket array, the one made
\* for the cursor before.
HtAddStep(data) ==
  /\ LET r == htAdd(Table, data)
     IN  /\ index' = r.t.index
         /\ numItem' = r.t.numItem
         /\ total' = r.t.total
         /\ ht' = r.t.ht
         /\ nodes' = r.t.nodes
         /\ entries' = r.t.entries
         /\ call' = [NoCall EXCEPT !.op = "add", !.data = data,
                       !.ret = r.fr, !.grew = r.grew,
                       !.mid = IF r.grew THEN MidOf(r.mid) ELSE NoMid]
         /\ freed' = IF r.grew THEN Append(freed, Free("ht", index))
                      ELSE freed
  /\ addCount' = [addCount EXCEPT ![KeyOf(data)] = @ + 1]
  /\ UNCHANGED <<functions, sizes, numSizes, lf, status, caller, ptr,
                 threads>>

\* Mutant: the assert comes after checkRehash.
HtAddAssertsLate(data) ==
  /\ status = "live"
  /\ IF data = NULL
       THEN LET mid == checkRehash(Table)
            IN  /\ status' = "aborted"
                /\ call' = [NoCall EXCEPT !.op = "add"]
                /\ index' = mid.index
                /\ ht' = mid.ht
                /\ nodes' = mid.nodes
                /\ freed' = IF needsRehash(Table)
                             THEN Append(freed, Free("ht", index))
                             ELSE freed
                /\ UNCHANGED <<functions, sizes, numSizes, numItem, total,
                               lf, entries, ptr, addCount, caller,
                 threads>>
       ELSE HtAddStep(data)

HtAdd(data) ==
  /\ status = "live"
  /\ IF data = NULL THEN AssertFails("add") ELSE HtAddStep(data)

\* Mutant: a lookup that finds the value counts as one more reference.
HtLookUpCounts(data) ==
  /\ status = "live"
  /\ IF data = NULL
       THEN AssertFails("lookup")
       ELSE LET i    == hash(Table, data) % Table.sizes[index + 1]
                curr == addTailScan(Table, ht[i + 1], data)
            IN  /\ call' = [NoCall EXCEPT !.op = "lookup", !.data = data,
                              !.entry = htLookUp(Table, data)]
                /\ entries' = IF curr = NULL THEN entries
                              ELSE [entries EXCEPT
                                      ![nodes[curr].entry].frequency = @ + 1]
                /\ UNCHANGED <<functions, sizes, numSizes, index, numItem,
                               total, lf, ht, nodes, ptr, freed, status,
                               addCount, caller,
                 threads>>

HtLookUp(data) ==
  /\ status = "live"
  /\ IF data = NULL
       THEN AssertFails("lookup")
       ELSE /\ call' = [NoCall EXCEPT !.op = "lookup", !.data = data,
                          !.entry = htLookUp(Table, data)]
            /\ TableUnchanged
            /\ UNCHANGED <<status, addCount, caller,
                 threads>>

\* calloc(numItem, sizeof(HTEntry)) with numItem = 0 returns either NULL or
\* a block (implementation-defined); NULL goes to failMalloc, which exits.
HtToArray ==
  /\ status = "live"
  /\ \/ /\ numItem = 0
        /\ status' = "exited"
        /\ call' = [NoCall EXCEPT !.op = "toArray"]
     \/ /\ LET r == htToArray(Table)
           IN  call' = [NoCall EXCEPT !.op = "toArray", !.arr = r.arr,
                          !.isNull = r.isNull, !.size = r.size]
        /\ UNCHANGED status
  /\ TableUnchanged
  /\ UNCHANGED <<addCount, caller,
                 threads>>

HtCapacity ==
  /\ status = "live"
  /\ call' = [NoCall EXCEPT !.op = "capacity", !.ret = htCapacity(Table)]
  /\ TableUnchanged
  /\ UNCHANGED <<status, addCount, caller,
                 threads>>

HtUniqueEntries ==
  /\ status = "live"
  /\ call' = [NoCall EXCEPT !.op = "unique", !.ret = htUniqueEntries(Table)]
  /\ TableUnchanged
  /\ UNCHANGED <<status, addCount, caller,
                 threads>>

HtTotalEntries ==
  /\ status = "live"
  /\ call' = [NoCall EXCEPT !.op = "total", !.ret = htTotalEntries(Table)]
  /\ TableUnchanged
  /\ UNCHANGED <<status, addCount, caller,
                 threads>>

\* Two kinds of run.  On the small schedules every operation is called, on
\* pointers to NumKeys strings.  On the schedule of testRehash the calls are
\* those of the test: fresh strings are added and the table is observed
\* through its O(1) reads.
SmallTable == sizes \in Schedules

AddAny == SmallTable /\ total < MaxAdds /\ \E d \in Data : HtAdd(d)

AddFresh ==
  /\ ~SmallTable
  /\ numItem < MaxFresh
  /\ HtAdd(NumData + numItem + 1)

LookUpAny == SmallTable /\ \E d \in Data : HtLookUp(d)

ToArrayAny == SmallTable /\ HtToArray

Next ==
  \/ AddAny
  \/ AddFresh
  \/ LookUpAny
  \/ ToArrayAny
  \/ HtCapacity
  \/ HtUniqueEntries
  \/ HtTotalEntries

Spec == Init /\ [][Next]_vars

\* ------------------------------------------------- the life of one table
\* A second kind of run: the handle starts unset, htCreate is called with
\* arguments that may fail its asserts, the caller may overwrite what it
\* passed, operations may be handed NULL, and htDestroy ends the table.
MaxLifeAdds == 3

LifeSizes == { <<2, 3, 5>>, <<2, 2>>, <<3, 2>>, <<1, 2>>, <<0>> }
LifeNumSizes(szs) == {-1, 0, 1, Len(szs)}
LifeLoadFactors ==
  { [num |-> -1, den |-> 2], [num |-> 0, den |-> 1], [num |-> 1, den |-> 2],
    [num |-> 1, den |-> 1], [num |-> 3, den |-> 2] }
\* One function set with a destroy callback and one without (NULL).
LifeFunctions ==
  { [hash |-> [k \in AllKeys |-> k], destroy |-> TRUE],
    [hash |-> [k \in AllKeys |-> 7], destroy |-> FALSE] }

NoFunctions == [hash |-> <<>>, destroy |-> FALSE]

InitLife ==
  /\ threads = NoThreads(TRUE)
  /\ status = "none"
  /\ caller = [functions |-> NoFunctions, sizes |-> <<>>, numSizes |-> 0,
               lf |-> [num |-> 0, den |-> 1]]
  /\ ptr = [functions |-> "none", sizes |-> "none"]
  /\ freed = <<>>
  /\ functions = NoFunctions
  /\ sizes = <<>>
  /\ numSizes = 0
  /\ index = 0
  /\ numItem = 0
  /\ total = 0
  /\ lf = [num |-> 0, den |-> 1]
  /\ ht = <<>>
  /\ nodes = <<>>
  /\ entries = <<>>
  /\ call = [NoCall EXCEPT !.op = "none"]
  /\ addCount = [k \in AllKeys |-> 0]

\* htCreate: a failed assert aborts the process, otherwise the table is
\* built from the arguments.
HtCreate(fns, szs, n, rehashLoadFactor) ==
  /\ status = "none"
  /\ caller' = [functions |-> fns, sizes |-> szs, numSizes |-> n,
                lf |-> rehashLoadFactor]
  /\ call' = NoCall
  /\ IF htCreateAsserts(szs, n, rehashLoadFactor)
       THEN LET t == htCreate(fns, szs, n, rehashLoadFactor)
            IN  /\ status' = "live"
                /\ ptr' = t.ptr
                /\ functions' = t.functions
                /\ sizes' = t.sizes
                /\ numSizes' = t.numSizes
                /\ index' = t.index
                /\ numItem' = t.numItem
                /\ total' = t.total
                /\ lf' = t.lf
                /\ ht' = t.ht
                /\ nodes' = t.nodes
                /\ entries' = t.entries
                /\ UNCHANGED freed
       ELSE /\ status' = "aborted"
            /\ TableUnchanged
  /\ UNCHANGED <<addCount, threads>>

\* The caller writes over the schedule and the function set it passed to
\* htCreate (testHashTable.c builds both in locals of the test function).
ScribbleHash == [k \in AllKeys |-> 0]

CallerOverwrite ==
  /\ status = "live"
  /\ caller.functions.hash # ScribbleHash
  /\ caller' = [caller EXCEPT
                  !.sizes = [i \in DOMAIN caller.sizes |-> 2],
                  !.functions = [hash |-> ScribbleHash, destroy |-> FALSE]]
  /\ call' = [NoCall EXCEPT !.op = "overwrite"]
  /\ TableUnchanged
  /\ UNCHANGED <<status, addCount, threads>>

HtMetrics ==
  /\ status = "live"
  /\ call' = [NoCall EXCEPT !.op = "metrics", !.metrics = htMetrics(Table)]
  /\ TableUnchanged
  /\ UNCHANGED <<status, addCount, caller,
                 threads>>

\* htDestroy: every free and every destroy callback, in call order; the
\* handle is dead afterwards.
HtDestroy(destroyData) ==
  /\ status = "live"
  /\ freed' = htDestroy(Table, destroyData, freed)
  /\ status' = "destroyed"
  /\ call' = [NoCall EXCEPT !.op = "destroy", !.ret = destroyData]
  /\ UNCHANGED <<functions, sizes, numSizes, index, numItem, total, lf, ht,
                 nodes, entries, ptr, addCount, caller,
                 threads>>

LifeCreate ==
  \E fns \in LifeFunctions, szs \in LifeSizes, rlf \in LifeLoadFactors :
    \E n \in LifeNumSizes(szs) : HtCreate(fns, szs, n, rlf)

LifeAdd == total < MaxLifeAdds /\ \E d \in Data \cup {NULL} : HtAdd(d)

LifeLookUp == \E d \in Data \cup {NULL} : HtLookUp(d)

LifeDestroy == \E destroyData \in {0, 1} : HtDestroy(destroyData)

NextLife ==
  \/ LifeCreate
  \/ CallerOverwrite
  \/ LifeAdd
  \/ LifeLookUp
  \/ HtToArray
  \/ HtMetrics
  \/ HtCapacity
  \/ HtUniqueEntries
  \/ HtTotalEntries
  \/ LifeDestroy

SpecLife == InitLife /\ [][NextLife]_vars

\* ------------------------------------------------- two callers of htAdd
\* A third kind of run: two threads call htAdd on one table.  Each
\* statement of htAdd and addTail is a step of its own; the call of
\* checkRehash, rehash included, is taken as one step.  When serialized
\* is set a call starts only while no other call is in progress.
MaxRaceAdds == 3

RaceSizes == <<2, 3>>
RaceLoadFactor == [num |-> 1, den |-> 2]

RaceFunctions == [hash |-> [k \in AllKeys |-> k], destroy |-> FALSE]

InitRace ==
  /\ \E serialized \in BOOLEAN : threads = NoThreads(serialized)
  /\ InitWith(RaceFunctions, RaceSizes, RaceLoadFactor)

Local(p) == threads.local[p]

\* The thread p moves to pc with its locals changed as in l.
Goto(p, l) == threads' = [threads EXCEPT !.local[p] = l]

RaceFrame ==
  UNCHANGED <<functions, sizes, numSizes, lf, status, call, caller, ptr>>

\* htAdd is entered with data (line 143 passed).
RaceCall(p, data) ==
  /\ status = "live"
  /\ Local(p).pc = "idle"
  /\ SumOver(addCount, AllKeys) < MaxRaceAdds
  /\ threads.serialized => \A q \in Threads : Local(q).pc = "idle"
  /\ Goto(p, [Idle EXCEPT !.pc = "checkRehash", !.data = data])
  /\ addCount' = [addCount EXCEPT ![KeyOf(data)] = @ + 1]
  /\ RaceFrame
  /\ UNCHANGED <<index, numItem, total, ht, nodes, entries, freed>>

\* checkRehash(hti);
RaceCheckRehash(p) ==
  /\ Local(p).pc = "checkRehash"
  /\ LET mid == checkRehash(Table)
     IN  /\ index' = mid.index
         /\ ht' = mid.ht
         /\ nodes' = mid.nodes
         /\ freed' = IF needsRehash(Table)
                      THEN Append(freed, Free("ht", index)) ELSE freed
  /\ Goto(p, [Local(p) EXCEPT !.pc = "hash"])
  /\ RaceFrame
  /\ UNCHANGED <<numItem, total, entries, addCount>>

\* hi = hash(data) % sizes[index];
RaceHash(p) ==
  /\ Local(p).pc = "hash"
  /\ Goto(p, [Local(p) EXCEPT
                !.pc = "head",
                !.hi = hash(Table, Local(p).data) % Table.sizes[index + 1]])
  /\ RaceFrame
  /\ UNCHANGED <<index, numItem, total, ht, nodes, entries, freed,
                 addCount>>

\* ListNode* curr = hti->ht[hi];
RaceHead(p) ==
  /\ Local(p).pc = "head"
  /\ Goto(p, [Local(p) EXCEPT !.pc = "numItem",
                                !.curr = ht[Local(p).hi + 1]])
  /\ RaceFrame
  /\ UNCHANGED <<index, numItem, total, ht, nodes, entries, freed,
                 addCount>>

\* hti->numItem += 1;
RaceNumItem(p) ==
  /\ Local(p).pc = "numItem"
  /\ numItem' = numItem + 1
  /\ Goto(p, [Local(p) EXCEPT !.pc = "total"])
  /\ RaceFrame
  /\ UNCHANGED <<index, total, ht, nodes, entries, freed, addCount>>

\* hti->total += 1;
RaceTotal(p) ==
  /\ Local(p).pc = "total"
  /\ total' = total + 1
  /\ Goto(p, [Local(p) EXCEPT !.pc = "while"])
  /\ RaceFrame
  /\ UNCHANGED <<index, numItem, ht, nodes, entries, freed, addCount>>

\* while(curr): leave the loop at NULL, enter the if on a match, else
\* curr = curr->next.
RaceWhile(p) ==
  /\ Local(p).pc = "while"
  /\ LET curr == Local(p).curr
     IN  Goto(p, IF curr = NULL THEN [Local(p) EXCEPT !.pc = "calloc"]
                 ELSE IF compare(entries[nodes[curr].entry].data,
                                 Local(p).data) = 0
                   THEN [Local(p) EXCEPT !.pc = "found"]
                 ELSE [Local(p) EXCEPT !.curr = nodes[curr].next])
  /\ RaceFrame
  /\ UNCHANGED <<index, numItem, total, ht, nodes, entries, freed,
                 addCount>>

\* Mutant: a duplicate does not take its increment of numItem back.
RaceFoundKeepsNumItem(p) ==
  /\ Local(p).pc = "found"
  /\ Goto(p, [Local(p) EXCEPT !.pc = "frequency"])
  /\ RaceFrame
  /\ UNCHANGED <<index, numItem, total, ht, nodes, entries, freed,
                 addCount>>

\* hti->numItem -= 1;
RaceFound(p) ==
  /\ Local(p).pc = "found"
  /\ numItem' = numItem - 1
  /\ Goto(p, [Local(p) EXCEPT !.pc = "frequency"])
  /\ RaceFrame
  /\ UNCHANGED <<index, total, ht, nodes, entries, freed, addCount>>

\* curr->entry->frequency += 1; return curr->entry->frequency;
RaceFrequency(p) ==
  /\ Local(p).pc = "frequency"
  /\ entries' = [entries EXCEPT
                   ![nodes[Local(p).curr].entry].frequency = @ + 1]
  /\ Goto(p, Idle)
  /\ RaceFrame
  /\ UNCHANGED <<index, numItem, total, ht, nodes, freed, addCount>>

\* curr = calloc(1, sizeof(ListNode)); curr->entry = addEntry(data);
RaceCalloc(p) ==
  /\ Local(p).pc = "calloc"
  /\ entries' = Append(entries, addEntry(Local(p).data))
  /\ nodes' = Append(nodes, [entry |-> Len(entries) + 1, next |-> NULL])
  /\ Goto(p, [Local(p) EXCEPT !.pc = "next", !.curr = Len(nodes) + 1])
  /\ RaceFrame
  /\ UNCHANGED <<index, numItem, total, ht, freed, addCount>>

\* curr->next = hti->ht[hi];
RaceLink(p) ==
  /\ Local(p).pc = "next"
  /\ nodes' = [nodes EXCEPT ![Local(p).curr].next = ht[Local(p).hi + 1]]
  /\ Goto(p, [Local(p) EXCEPT !.pc = "publish"])
  /\ RaceFrame
  /\ UNCHANGED <<index, numItem, total, ht, entries, freed, addCount>>

\* hti->ht[hi] = curr; return 1;
RacePublish(p) ==
  /\ Local(p).pc = "publish"
  /\ ht' = [ht EXCEPT ![Local(p).hi + 1] = Local(p).curr]
  /\ Goto(p, Idle)
  /\ RaceFrame
  /\ UNCHANGED <<index, numItem, total, nodes, entries, freed, addCount>>

ThreadCall == \E p \in Threads, d \in Data : RaceCall(p, d)
ThreadCheckRehash == \E p \in Threads : RaceCheckRehash(p)
ThreadHash == \E p \in Threads : RaceHash(p)
ThreadHead == \E p \in Threads : RaceHead(p)
ThreadNumItem == \E p \in Threads : RaceNumItem(p)
ThreadTotal == \E p \in Threads : RaceTotal(p)
ThreadWhile == \E p \in Threads : RaceWhile(p)
ThreadFound == \E p \in Threads : RaceFound(p)
ThreadFrequency == \E p \in Threads : RaceFrequency(p)
ThreadCalloc == \E p \in Threads : RaceCalloc(p)
ThreadLink == \E p \in Threads : RaceLink(p)
ThreadPublish == \E p \in Threads : RacePublish(p)

NextRace ==
  \/ ThreadCall
  \/ ThreadCheckRehash
  \/ ThreadHash
  \/ ThreadHead
  \/ ThreadNumItem
  \/ ThreadTotal
  \/ ThreadWhile
  \/ ThreadFound
  \/ ThreadFrequency
  \/ ThreadCalloc
  \/ ThreadLink
  \/ ThreadPublish

SpecRace == InitRace /\ [][NextRace]_vars

\* ------------------------------------------- vocabulary of the properties
Range(f) == { f[i] : i \in DOMAIN f }

\* Every data pointer a call is made with.
Pointers == Data \cup FreshKeys

\* The node pointers met from head n by following next, at most fuel of them.
RECURSIVE ChainOf(_, _, _)
ChainOf(nds, n, fuel) ==
  IF n = NULL \/ fuel = 0 THEN <<>>
  ELSE <<n>> \o ChainOf(nds, nds[n].next, fuel - 1)

ChainAt(buckets, nds, i) == ChainOf(nds, buckets[i], Len(nds))

\* The chain nodes reachable from a bucket array, and how many chain
\* positions they fill.
StoredNodes(buckets, nds) ==
  UNION { Range(ChainAt(buckets, nds, i)) : i \in DOMAIN buckets }
ChainLengths(buckets, nds) ==
  LET heads == { i \in DOMAIN buckets : buckets[i] # NULL }
  IN  SumOver([i \in heads |-> Len(ChainAt(buckets, nds, i))], heads)

\* The stored entries (value reference and frequency).
StoredEntries(buckets, nds, ents) ==
  { ents[nds[n].entry] : n \in StoredNodes(buckets, nds) }

\* The strings htAdd was called with so far.
AddedKeys == { k \in AllKeys : addCount[k] > 0 }

\* The ratio test of the growth policy, on the fields of the state.
RatioAboveLoadFactor == numItem * lf.den > lf.num * sizes[index + 1]

\* --------------------------------------------------------------- C1
\* C1: a lookup of x reports as frequency the number of htAdd calls made so
\* far with a value equivalent to x, growth steps included; the total count
\* is the number of htAdd calls and the unique count is the number of
\* equivalence classes added, so N adds of one class raise them by N and 1.
C1_FrequencyCorrect ==
  /\ (status = "live" /\ call.op = "lookup")
       => call.entry.frequency = addCount[KeyOf(call.data)]
  /\ \A d \in Pointers : htLookUp(Table, d).frequency = addCount[KeyOf(d)]
  /\ htTotalEntries(Table) = SumOver(addCount, AllKeys)
  /\ htUniqueEntries(Table) = Cardinality(AddedKeys)

\* A class added three times, through two different pointers, looked up
\* after a growth step.
C1_Witness ==
  /\ call.op = "lookup"
  /\ call.entry.frequency = 3
  /\ call.entry.data # call.data
  /\ index > 0
  /\ numItem = 2
  /\ total = 4

\* --------------------------------------------------------------- C2
\* C2: the schedule cursor stays within 0..numSizes-1 and never decreases,
\* the capacity is always one of the sizes given to htCreate and never
\* decreases, and at the last schedule entry no call changes it.
C2_CapacityMonotone ==
  /\ [](/\ index \in 0..(numSizes - 1)
        /\ htCapacity(Table) \in Range(sizes)
        /\ call.op = "capacity" => call.ret \in Range(sizes))
  /\ [][/\ index' >= index
        /\ sizes' = sizes
        /\ htCapacity(Table)' >= htCapacity(Table)
        /\ index = numSizes - 1 => htCapacity(Table)' = htCapacity(Table)]_vars

\* An htAdd of a duplicate at the last schedule entry, made with the ratio
\* above the load factor.
C2_Witness ==
  /\ call.op = "add"
  /\ call.ret > 1
  /\ numSizes > 1
  /\ index = numSizes - 1
  /\ ~call.grew
  /\ lf.num # lf.den
  /\ RatioAboveLoadFactor

\* --------------------------------------------------------------- C3
\* C3: an htAdd grows the table exactly when, before the call, the load
\* factor is not 1, a larger schedule entry exists and the unique count over
\* the capacity exceeds the load factor; the growth precedes the placement,
\* so the value sits in its bucket under the new capacity.  With
\* [10,30,999] and 0.49 and distinct values the capacity is 10 up to 5
\* inserts, 30 from the 6th to the 15th and 999 from the 16th.
C3_AddStep ==
  LET cond == /\ lf.num # lf.den
              /\ index < numSizes - 1
              /\ RatioAboveLoadFactor
      d    == call'.data
      b    == (functions.hash[KeyOf(d)] % sizes[index' + 1]) + 1
  IN  /\ call'.op = "add"
      /\ cond => (index' = index + 1 /\ call'.grew)
      /\ ~cond => (index' = index /\ ~call'.grew)
      /\ call'.grew =>
           /\ call'.mid.index = index + 1
           /\ call'.mid.numItem = numItem
           /\ Len(call'.mid.ht) = sizes[index + 2]
      /\ \E n \in Range(ChainAt(ht', nodes', b)) :
           compare(entries'[nodes'[n].entry].data, d) = 0

C3_Example ==
  (sizes = <<10, 30, 999>> /\ lf = [num |-> 49, den |-> 100]
     /\ numItem = total)
    => htCapacity(Table) = IF total <= 5 THEN 10
                           ELSE IF total <= 15 THEN 30 ELSE 999

C3_GrowthTrigger ==
  /\ [][addCount' # addCount => C3_AddStep]_vars
  /\ []C3_Example

\* The 16th distinct insert of the example has just grown the table to 999.
C3_Witness ==
  /\ sizes = <<10, 30, 999>>
  /\ call.op = "add"
  /\ call.grew
  /\ total = 16
  /\ numItem = 16
  /\ htCapacity(Table) = 999

\* --------------------------------------------------------------- C4
\* C4: a growth step loses and duplicates nothing: the chain nodes and the
\* stored entries are the same right after it as right before it, each node
\* is in one chain, no node or entry is allocated, the two counters are
\* unchanged by it, and every lookup answers as before.
C4_GrowthStep ==
  LET m        == call'.mid
      midTable == [Table EXCEPT !.index = m.index, !.ht = m.ht,
                                !.nodes = m.nodes, !.entries = m.entries]
  IN  /\ StoredNodes(m.ht, m.nodes) = StoredNodes(ht, nodes)
      /\ ChainLengths(m.ht, m.nodes) = Cardinality(StoredNodes(ht, nodes))
      /\ Len(m.nodes) = Len(nodes)
      /\ \A n \in DOMAIN nodes : m.nodes[n].entry = nodes[n].entry
      /\ m.entries = entries
      /\ StoredEntries(m.ht, m.nodes, m.entries)
           = StoredEntries(ht, nodes, entries)
      /\ m.numItem = numItem
      /\ m.total = total
      /\ \A d \in Pointers : htLookUp(midTable, d) = htLookUp(Table, d)

C4_NoLossAcrossGrowth ==
  [][(call'.op = "add" /\ call'.grew) => C4_GrowthStep]_vars

\* A growth step that moved three nodes, two of them into one chain.
C4_Witness ==
  /\ call.op = "add"
  /\ call.grew
  /\ call.mid.numItem = 3
  /\ \E i \in DOMAIN call.mid.ht :
       Len(ChainAt(call.mid.ht, call.mid.nodes, i)) >= 2

\* --------------------------------------------------------------- C5
\* C5: htAdd returns the frequency of the value's class after the insert:
\* 1 exactly when no equivalent value was stored (or ever added) before the
\* call, otherwise the frequency stored before the call plus 1.
C5_AddStep ==
  LET d     == call'.data
      prior == { e \in StoredEntries(ht, nodes, entries) :
                   compare(e.data, d) = 0 }
      after == { e \in StoredEntries(ht', nodes', entries') :
                   compare(e.data, d) = 0 }
  IN  /\ call'.op = "add"
      /\ (call'.ret = 1) <=> (prior = {})
      /\ (call'.ret = 1) <=> (addCount[KeyOf(d)] = 0)
      /\ \A e \in prior : call'.ret = e.frequency + 1 /\ call'.ret > 1
      /\ \A e \in after : call'.ret = e.frequency
      /\ after # {}

C5_AddReturnsFrequency == [][addCount' # addCount => C5_AddStep]_vars

\* The third htAdd of a class, made with another pointer than the stored one.
C5_Witness ==
  /\ call.op = "add"
  /\ call.ret = 3
  /\ htLookUp(Table, call.data).data # call.data

\* --------------------------------------------------------------- C6
\* C6: the array htToArray returns has the reported size, which is the
\* unique count, and holds exactly the stored entries: every class that was
\* added appears once, with the frequency a lookup reports, and nothing else.
C6_SnapshotRoundTrip ==
  (status = "live" /\ call.op = "toArray") =>
    /\ call.size = htUniqueEntries(Table)
    /\ Len(call.arr) = call.size
    /\ Range(call.arr) = StoredEntries(ht, nodes, entries)
    /\ \A i, j \in DOMAIN call.arr :
         compare(call.arr[i].data, call.arr[j].data) = 0 => i = j
    /\ { KeyOf(call.arr[i].data) : i \in DOMAIN call.arr } = AddedKeys
    /\ \A i \in DOMAIN call.arr :
         /\ call.arr[i] = htLookUp(Table, call.arr[i].data)
         /\ call.arr[i].frequency = addCount[KeyOf(call.arr[i].data)]

\* A snapshot of three entries, one of them a duplicate, after growth.
C6_Witness ==
  /\ status = "live"
  /\ call.op = "toArray"
  /\ call.size = 3
  /\ index > 0
  /\ \E i \in DOMAIN call.arr : call.arr[i].frequency = 2

\* --------------------------------------------------------------- C7
\* C7: htToArray on a table without entries returns NULL and sets the size
\* to 0.
C7_EmptySnapshot ==
  (call.op = "toArray" /\ numItem = 0) =>
    (status = "live" /\ call.isNull /\ call.size = 0)

\* --------------------------------------------------------------- C8
\* C8: htLookUp returns an entry with data and a frequency of at least 1
\* exactly when an equivalent value was added before, otherwise the sentinel
\* of NULL data and frequency 0, and returns normally in both cases.
C8_LookUpOf(d, e) ==
  LET added == addCount[KeyOf(d)] > 0
  IN  /\ added <=> (e.data # NULL /\ e.frequency >= 1)
      /\ added => compare(e.data, d) = 0
      /\ ~added => e = [data |-> NULL, frequency |-> 0]

C8_LookUpFound ==
  /\ call.op = "lookup" => (status = "live" /\ C8_LookUpOf(call.data, call.entry))
  /\ \A d \in Pointers : C8_LookUpOf(d, htLookUp(Table, d))

\* After a growth step, a lookup that misses although two classes are stored.
C8_Witness ==
  /\ call.op = "lookup"
  /\ call.entry.data = NULL
  /\ call.entry.frequency = 0
  /\ numItem = 2
  /\ index > 0

\* --------------------------------------------------------------- C9
\* C9: the total count is the sum of the frequencies of the stored entries
\* and the number of htAdd calls that have returned.
StoredFrequencies ==
  LET S == StoredNodes(ht, nodes)
  IN  SumOver([n \in S |-> entries[nodes[n].entry].frequency], S)

C9_TotalIsSumOfFrequencies ==
  /\ htTotalEntries(Table) = StoredFrequencies
  /\ htTotalEntries(Table) = SumOver(addCount, AllKeys)
  /\ call.op = "total" => call.ret = StoredFrequencies

\* htTotalEntries read with two entries of frequencies summing to 4.
C9_Witness ==
  /\ call.op = "total"
  /\ call.ret = 4
  /\ numItem = 2
  /\ index > 0

\* --------------------------------------------------------------- C10
\* C10: the unique count is the number of chain nodes in the bucket array,
\* no two stored entries are equivalent, and the stored classes are the
\* classes that were ever added.
C10_UniqueIsNodeCount ==
  LET S == StoredNodes(ht, nodes)
  IN  /\ htUniqueEntries(Table) = Cardinality(S)
      /\ htUniqueEntries(Table) = ChainLengths(ht, nodes)
      /\ \A m, n \in S :
           compare(entries[nodes[m].entry].data,
                   entries[nodes[n].entry].data) = 0 => m = n
      /\ { KeyOf(entries[nodes[n].entry].data) : n \in S } = AddedKeys
      /\ call.op = "unique" => call.ret = Cardinality(S)

\* htUniqueEntries read after duplicates were added and the table grew.
C10_Witness ==
  /\ call.op = "unique"
  /\ call.ret = 2
  /\ total = 4
  /\ index > 0

\* --------------------------------------------------------------- C11
\* C11: with a rehash load factor of exactly 1 the table never grows: the
\* cursor stays at 0 and the capacity at sizes[0], also when the schedule
\* has larger entries and the unique count is above the capacity.
C11_NoGrowthAtOne ==
  lf.num = lf.den =>
    /\ index = 0
    /\ htCapacity(Table) = sizes[1]
    /\ Len(ht) = sizes[1]
    /\ ~call.grew

\* More unique entries than slots, a larger size left, load factor 1.
C11_Witness ==
  /\ lf.num = lf.den
  /\ numSizes > 1
  /\ call.op = "add"
  /\ numItem > sizes[1]

\* --------------------------------------------------------------- C19
\* Every node of every chain of the bucket array holds an entry whose hash
\* modulo the number of slots is the index of the chain.
InOwnBucket(buckets, nds, ents) ==
  \A i \in DOMAIN buckets :
    \A n \in Range(ChainAt(buckets, nds, i)) :
      hash(Table, ents[nds[n].entry].data) % Len(buckets) = i - 1

\* C19: the bucket array has sizes[index] slots and every stored entry is
\* in the chain whose index is its hash modulo sizes[index]; this holds
\* right after a growth step and for the entry placed by the htAdd that
\* caused the growth.
C19_BucketIsHashModCapacity ==
  /\ Len(ht) = sizes[index + 1]
  /\ StoredNodes(ht, nodes) = DOMAIN nodes
  /\ InOwnBucket(ht, nodes, entries)
  /\ (call.op = "add" /\ call.grew) =>
       /\ Len(call.mid.ht) = sizes[index + 1]
       /\ InOwnBucket(call.mid.ht, call.mid.nodes, call.mid.entries)

\* An htAdd has grown the table and placed a new entry whose bucket under
\* the old capacity differs from its bucket under the new one.
C19_Witness ==
  /\ call.op = "add"
  /\ call.grew
  /\ call.ret = 1
  /\ numItem >= 3
  /\ hash(Table, call.data) % sizes[index]
       # hash(Table, call.data) % sizes[index + 1]

\* --------------------------------------------------------------- C20
\* C20: one htAdd advances the schedule cursor by at most one entry; a
\* growth step moves to the next size and no further, also when the ratio
\* is still above the load factor after it.
C20_OneStepPerAdd ==
  [][/\ index' <= index + 1
     /\ (call'.op = "add" /\ call'.grew) =>
          /\ index' = index + 1
          /\ call'.mid.index = index + 1
          /\ htCapacity(Table)' = sizes[index + 2]]_vars

\* A growth step after which a larger size is left and the ratio is still
\* above the load factor.
C20_Witness ==
  /\ call.op = "add"
  /\ call.grew
  /\ index < numSizes - 1
  /\ call.mid.numItem * lf.den > lf.num * sizes[index + 1]

\* --------------------------------------------------------------- C12
\* The arguments of the htCreate call, judged by the four conditions: the
\* number of sizes below 1, a size of 1 or less, a size not above the one
\* before it, a load factor outside (0, 1].
CreateArgsRejected ==
  LET n == caller.numSizes
      s == caller.sizes
      r == caller.lf
  IN  \/ n < 1
      \/ \E i \in 1..n : s[i] <= 1
      \/ \E i \in 2..n : s[i] <= s[i - 1]
      \/ ~(r.num > 0 /\ r.num <= r.den)

\* C12: htCreate aborts by assert exactly when one of the four conditions
\* holds of its arguments, and returns a table otherwise.
C12_CreateAsserts ==
  call.op = "create" =>
    IF CreateArgsRejected
      THEN status = "aborted" /\ ht = <<>>
      ELSE /\ status = "live"
           /\ numSizes = caller.numSizes
           /\ lf = caller.lf
           /\ Len(ht) > 1

\* An htCreate aborted only because the second size equals the first.
C12_Witness ==
  /\ call.op = "create"
  /\ status = "aborted"
  /\ caller.numSizes = 2
  /\ caller.sizes = <<2, 2>>
  /\ caller.lf = [num |-> 1, den |-> 1]

\* --------------------------------------------------------------- C13
\* C13: htAdd and htLookUp called with NULL abort by assert, and nothing of
\* the table or of the heap has changed when they do.
C13_NullAborts ==
  [][(call'.op \in {"add", "lookup"} /\ call'.data = NULL) =>
       /\ status' = "aborted"
       /\ UNCHANGED <<functions, sizes, numSizes, index, numItem, total, lf,
                      ht, nodes, entries, ptr, freed>>]_vars

\* htAdd(ht, NULL) has aborted on a table that was due to grow.
C13_Witness ==
  /\ status = "aborted"
  /\ call.op = "add"
  /\ numItem >= 2
  /\ needsRehash(Table)

\* --------------------------------------------------------------- C14
\* How many times a block was freed.
FreeCount(kind, id) ==
  Cardinality({ i \in DOMAIN freed : freed[i] = Free(kind, id) })

\* C14: after htDestroy, with either flag, every block the table allocated
\* has been freed exactly once: each chain node, each entry wrapper, each
\* bucket array, the schedule copy, the function-set copy and the handle.
C14_AllTableMemoryFreed ==
  status = "destroyed" =>
    /\ \A n \in DOMAIN nodes : FreeCount("node", n) = 1
    /\ \A e \in DOMAIN entries : FreeCount("entry", e) = 1
    /\ \A g \in 0..index : FreeCount("ht", g) = 1
    /\ FreeCount("sizes", 0) = 1
    /\ FreeCount("functions", 0) = 1
    /\ FreeCount("hti", 0) = 1

\* --------------------------------------------------------------- C15
\* The positions of the log at which ev was recorded.
LogPositions(ev) == { i \in DOMAIN freed : freed[i] = ev }

\* C15: htDestroy with a true flag frees each stored value exactly once and
\* calls the destroy callback, if there is one, once on each value before
\* that free; with a false flag it frees no value and calls no callback.
C15_ValuesFreedOnce ==
  status = "destroyed" =>
    IF call.ret # 0
      THEN /\ \A e \in DOMAIN entries :
                LET d == entries[e].data
                IN  /\ FreeCount("data", d) = 1
                    /\ Cardinality(LogPositions(Destroy(d)))
                         = IF functions.destroy THEN 1 ELSE 0
                    /\ \A i \in LogPositions(Destroy(d)) :
                         \A j \in LogPositions(Free("data", d)) : i < j
           /\ \A i \in DOMAIN freed :
                freed[i].kind = "data" =>
                  \E e \in DOMAIN entries : entries[e].data = freed[i].id
      ELSE \A i \in DOMAIN freed : freed[i].kind # "data"

\* A table with a destroy callback, two values and a duplicate add has been
\* destroyed with a true flag.
C15_Witness ==
  /\ status = "destroyed"
  /\ call.ret # 0
  /\ functions.destroy
  /\ numItem >= 2
  /\ total > numItem

\* --------------------------------------------------------------- C16
ReadOps == {"lookup", "toArray", "metrics", "capacity", "unique", "total"}

\* C16: htLookUp, htToArray, htMetrics, htCapacity, htUniqueEntries and
\* htTotalEntries leave every field of the table, the chains and the
\* entries as they were.
C16_ReadsLeaveTable ==
  [][call'.op \in ReadOps =>
       UNCHANGED <<functions, sizes, numSizes, index, numItem, total, lf,
                   ht, nodes, entries, ptr>>]_vars

\* A lookup has found a value that was added more than once.
C16_Witness ==
  /\ call.op = "lookup"
  /\ status = "live"
  /\ call.entry.frequency >= 2
  /\ numItem >= 2

\* --------------------------------------------------------------- C17
\* C17: right after a successful htCreate the capacity is sizes[0], the
\* cursor is 0, the unique and total counts are 0 and the bucket array is
\* sizes[0] empty slots.
C17_FreshTable ==
  (call.op = "create" /\ status = "live") =>
    /\ htCapacity(Table) = caller.sizes[1]
    /\ index = 0
    /\ htUniqueEntries(Table) = 0
    /\ htTotalEntries(Table) = 0
    /\ Len(ht) = caller.sizes[1]
    /\ \A i \in DOMAIN ht : ht[i] = NULL
    /\ nodes = <<>>
    /\ entries = <<>>

\* A table just created with a schedule of three sizes.
C17_Witness ==
  /\ call.op = "create"
  /\ status = "live"
  /\ caller.numSizes = 3
  /\ caller.sizes = <<2, 3, 5>>

\* --------------------------------------------------------------- C18
\* C18: the table reads its schedule and its functions from copies of its
\* own: when the caller overwrites what it passed to htCreate, the
\* schedule, the functions and the capacity of the table stay as they were.
C18_DeepCopies ==
  /\ [](status = "live" =>
          /\ ptr = [functions |-> "own", sizes |-> "own"]
          /\ Table.sizes = sizes
          /\ Table.functions = functions)
  /\ [][call'.op = "overwrite" =>
          /\ Table'.sizes = Table.sizes
          /\ Table'.functions = Table.functions
          /\ htCapacity(Table)' = htCapacity(Table)]_vars

\* The table has grown along the schedule it was created with after the
\* caller overwrote its array and its function set.
C18_Witness ==
  /\ call.op = "add"
  /\ call.grew
  /\ caller.functions.hash = ScribbleHash
  /\ caller.sizes = <<2, 2, 2>>
  /\ sizes = <<2, 3, 5>>
  /\ htCapacity(Table) = 3

\* --------------------------------------------------------------- C21
\* a comes before b in the sequence q.
Before(q, a, b) ==
  \E i, j \in DOMAIN q : i < j /\ q[i] = a /\ q[j] = b

Heads(buckets) == { i \in DOMAIN buckets : buckets[i] # NULL }

\* Chain nodes are allocated in the order in which their classes were
\* first added, so a later first add is a larger node pointer.
\* C21 as stated: in every chain a node whose class was first added later
\* is nearer the head, also in chains built by a growth step.
C21_NewestNearerHead ==
  \A i \in Heads(ht) :
    LET q == ChainAt(ht, nodes, i)
    IN  \A j, k \in DOMAIN q : j < k => q[j] > q[k]

\* Any two nodes that share a chain before and a chain after keep their
\* relative order.
OrderKept(b0, n0, b1, n1) ==
  \A i \in Heads(b0), j \in Heads(b1) :
    LET o == ChainAt(b0, n0, i)
        m == ChainAt(b1, n1, j)
    IN  \A x, y \in Range(o) \cap Range(m) : Before(o, x, y) => Before(m, x, y)

\* A growth step puts b ahead of a in the new chain they share when a was
\* ahead of b in one old chain, or a was in an old chain of lower index.
OrderReversed(b0, n0, b1, n1) ==
  \A j \in Heads(b1) :
    LET m == ChainAt(b1, n1, j)
    IN  \A i, k \in Heads(b0) :
          LET o == ChainAt(b0, n0, i)
              p == ChainAt(b0, n0, k)
          IN  \A x \in Range(o) \cap Range(m), y \in Range(p) \cap Range(m) :
                ((i = k /\ Before(o, x, y)) \/ i < k) => Before(m, y, x)

\* C21 amended: within one bucket array an htAdd of a new class makes its
\* node the head of its chain and keeps the relative order of all other
\* nodes, so nodes added since the last growth step are most recent first;
\* a growth step reverses the order of the nodes of each old chain.
C21_OrderWithinGeneration ==
  [][call'.op = "add" /\ call'.data # NULL =>
       LET b0 == IF call'.grew THEN call'.mid.ht ELSE ht
           n0 == IF call'.grew THEN call'.mid.nodes ELSE nodes
       IN  /\ OrderKept(b0, n0, ht', nodes')
           /\ Len(nodes') > Len(nodes) =>
                \E i \in Heads(ht') : ht'[i] = Len(nodes')
           /\ call'.grew => OrderReversed(ht, nodes, b0, n0)]_vars

\* A growth step has moved two nodes of one old chain into one new chain,
\* and the add that caused it has pushed a third node on that chain.
C21_Witness ==
  /\ call.op = "add"
  /\ call.grew
  /\ call.ret = 1
  /\ \E i \in Heads(ht) :
       LET q == ChainAt(ht, nodes, i)
       IN  Len(q) >= 3 /\ q[1] > q[2] /\ q[2] < q[3]

\* --------------------------------------------------------------- C22
\* C22: an htAdd that does not grow the table changes at most the chain of
\* bucket hash(value) mod sizes[index]: a new entry becomes the head of
\* that chain with frequency 1 and the old chain follows it; a duplicate
\* raises the frequency of the matching entry by one and moves nothing;
\* every other chain, node, entry and frequency is as before.
C22_AddStep ==
  LET d == call'.data
      b == (hash(Table, d) % sizes[index + 1]) + 1
      n == Len(nodes) + 1
      e == Len(entries) + 1
  IN  /\ index' = index
      /\ Len(ht') = Len(ht)
      /\ \A i \in DOMAIN ht : i # b => ht'[i] = ht[i]
      /\ \A m \in DOMAIN nodes : nodes'[m] = nodes[m]
      /\ IF call'.ret = 1
           THEN /\ Len(nodes') = n
                /\ Len(entries') = e
                /\ ht'[b] = n
                /\ nodes'[n] = [entry |-> e, next |-> ht[b]]
                /\ entries'[e] = [data |-> d, frequency |-> 1]
                /\ ChainAt(ht', nodes', b) = <<n>> \o ChainAt(ht, nodes, b)
                /\ \A x \in DOMAIN entries : entries'[x] = entries[x]
           ELSE /\ nodes' = nodes
                /\ ht' = ht
                /\ Len(entries') = Len(entries)
                /\ \E m \in Range(ChainAt(ht, nodes, b)) :
                     LET x == nodes[m].entry
                     IN  /\ compare(entries[x].data, d) = 0
                         /\ entries'[x].frequency = entries[x].frequency + 1
                         /\ entries'[x].data = entries[x].data
                         /\ \A y \in DOMAIN entries :
                              y # x => entries'[y] = entries[y]

C22_AddFrame ==
  [][(call'.op = "add" /\ call'.data # NULL /\ ~call'.grew)
       => C22_AddStep]_vars

\* A duplicate add without growth whose entry is not the head of its
\* chain.
C22_Witness ==
  /\ call.op = "add"
  /\ ~call.grew
  /\ call.ret >= 2
  /\ LET b == (hash(Table, call.data) % sizes[index + 1]) + 1
     IN  /\ Len(ChainAt(ht, nodes, b)) >= 2
         /\ compare(entries[nodes[ht[b]].entry].data, call.data) # 0

\* --------------------------------------------------------------- C23
\* C23: the reference stored for a class is the one passed to the first
\* htAdd of the class and is never replaced: no step changes the reference
\* of an entry, the first add of a class stores the reference it was
\* passed, a later add of the class stores nothing, and htLookUp and
\* htToArray return the stored references.
C23_Step ==
  LET d == call'.data
      k == KeyOf(d)
  IN  /\ \A x \in DOMAIN entries : entries'[x].data = entries[x].data
      /\ (call'.op = "add" /\ d # NULL) =>
           IF addCount[k] = 0
             THEN /\ Len(entries') = Len(entries) + 1
                  /\ entries'[Len(entries')].data = d
             ELSE /\ Len(entries') = Len(entries)
                  /\ \E x \in DOMAIN entries : KeyOf(entries[x].data) = k
      /\ (call'.op = "lookup" /\ d # NULL /\ addCount[k] > 0) =>
           \E x \in DOMAIN entries :
             /\ KeyOf(entries[x].data) = k
             /\ call'.entry.data = entries[x].data
      /\ call'.op = "toArray" =>
           \A i \in DOMAIN call'.arr :
             \E x \in DOMAIN entries : call'.arr[i] = entries[x]

C23_FirstReferenceKept == [][C23_Step]_vars

\* After a growth step, a lookup by the second reference of a class that
\* was added through both returns the first.
C23_Witness ==
  /\ call.op = "lookup"
  /\ call.data = NumKeys + 1
  /\ call.entry.data = 1
  /\ call.entry.frequency >= 2
  /\ index >= 1

\* --------------------------------------------------------------- C24
MaxOf(S) == IF S = {} THEN 0 ELSE CHOOSE x \in S : \A y \in S : y <= x

\* C24: on a table with at least one entry htMetrics reports the number of
\* non-empty buckets, the length of the longest chain, and as average the
\* sum of the chain lengths, which is the unique count, over the number of
\* non-empty buckets.
C24_MetricsOfChains ==
  (call.op = "metrics" /\ htUniqueEntries(Table) >= 1) =>
    LET m == call.metrics
    IN  /\ m.numberOfChains = Cardinality(Heads(ht))
        /\ m.maxChainLength
             = MaxOf({ Len(ChainAt(ht, nodes, i)) : i \in DOMAIN ht })
        /\ m.avgChainLength.num = ChainLengths(ht, nodes)
        /\ m.avgChainLength.num = htUniqueEntries(Table)
        /\ m.avgChainLength.den = m.numberOfChains
        /\ m.avgChainLength.den > 0

\* Metrics of a grown table of three entries in one chain, two slots
\* empty.
C24_Witness ==
  /\ call.op = "metrics"
  /\ call.metrics.numberOfChains = 1
  /\ call.metrics.maxChainLength = 3
  /\ call.metrics.avgChainLength = [num |-> 3, den |-> 1]
  /\ index = 1
  /\ Len(ht) = 3

InBounds(a) == a.at >= 0 /\ a.at < a.len

ChainEnds(buckets, nds, i) ==
  LET q == ChainAt(buckets, nds, i)
  IN  /\ \A j, k \in DOMAIN q : j # k => q[j] # q[k]
      /\ q # <<>> => nds[q[Len(q)]].next = NULL

\* Every chain is finite and acyclic, and every node is in exactly one
\* chain, so that one pass over the buckets meets each node once.
WellFormedChains(buckets, nds) ==
  /\ \A i \in Heads(buckets) : ChainEnds(buckets, nds, i)
  /\ \A n \in DOMAIN nds :
       Cardinality({ i \in Heads(buckets) :
                       n \in Range(ChainAt(buckets, nds, i)) }) = 1
  /\ ChainLengths(buckets, nds) = Len(nds)

\* C27: in every reachable state, and in the table right after a growth
\* step, the chains are finite, acyclic and disjoint and cover every
\* node, so every scan ends after meeting each node at most once.
C27_ChainsAcyclic ==
  /\ WellFormedChains(ht, nodes)
  /\ (call.op = "add" /\ call.grew) =>
       WellFormedChains(call.mid.ht, call.mid.nodes)

\* A growth step has rebuilt a chain of at least two nodes, and another
\* chain exists.
C27_Witness ==
  /\ call.op = "add"
  /\ call.grew
  /\ Cardinality(Heads(call.mid.ht)) >= 2
  /\ \E i \in Heads(call.mid.ht) :
       Len(ChainAt(call.mid.ht, call.mid.nodes, i)) >= 2

\* --------------------------------------------------------------- C28
\* No call of htAdd is in progress.
Quiescent == \A p \in Threads : Local(p).pc = "idle"

\* Two chain nodes of the bucket array hold entries of one class.
ClassStoredTwice ==
  \E m, n \in StoredNodes(ht, nodes) :
    /\ m # n
    /\ compare(entries[nodes[m].entry].data, entries[nodes[n].entry].data) = 0

\* The invariants of the table between calls: the total count is the sum
\* of the stored frequencies and the number of calls, the unique count is
\* the number of stored entries, no class is stored twice, and each added
\* class is found with its number of adds.
TableConsistent ==
  /\ total = StoredFrequencies
  /\ total = SumOver(addCount, AllKeys)
  /\ numItem = Cardinality(StoredNodes(ht, nodes))
  /\ ~ClassStoredTwice
  /\ \A d \in Data : htLookUp(Table, d).frequency = addCount[KeyOf(d)]

\* C28: the table has no synchronization of its own.  When the two
\* callers take turns, the invariants hold whenever no call is in
\* progress; when their htAdd calls interleave statement by statement, a
\* state between calls is reached in which the invariants are broken.
C28_SerializedKeepsInvariants ==
  (threads.serialized /\ Quiescent) => TableConsistent

\* Two interleaved htAdd calls have returned and one class is stored
\* twice, with a unique count above the number of classes added.
C28_Witness ==
  /\ ~threads.serialized
  /\ Quiescent
  /\ ClassStoredTwice
  /\ numItem > Cardinality(AddedKeys)
  /\ ~TableConsistent

====
